---- MODULE Spec2Model ----
(***************************************************************************)
(* Model of src/scheduler.c: a priority queue of processes kept as a       *)
(* doubly linked list of heap nodes (top .. bottom), ordered by            *)
(* process_evaluation.                                                     *)
(*                                                                         *)
(* The heap is a function from allocated addresses to nodes; malloc takes  *)
(* the lowest free address or fails.  unsigned int values (remaining_time, *)
(* the callback result, the quantum, the score) are 32 bits wide and are   *)
(* kept as pairs <<high 16 bits, low 16 bits>> so that their wrap-around   *)
(* is computed exactly.                                                    *)
(***************************************************************************)
EXTENDS Integers, Sequences, FiniteSets, TLC

\* Number of node addresses the heap has.
MaxNodes == 6

NULL == 0

CPU_MASK_MAX == 65535

Addr == 1..MaxNodes

QueueIds == {1, 2}

Min(S) == CHOOSE x \in S : \A y \in S : x <= y

-----------------------------------------------------------------------------
(* unsigned int arithmetic, 32 bits, on <<high, low>> pairs of 16-bit halves *)

Half == CPU_MASK_MAX + 1

U32(n) == <<n \div Half, n % Half>>

U32Lt(a, b) == a[1] < b[1] \/ (a[1] = b[1] /\ a[2] < b[2])

U32Add(a, b) == <<(a[1] + b[1] + ((a[2] + b[2]) \div Half)) % Half, (a[2] + b[2]) % Half>>

U32Sub(a, b) == <<(a[1] - b[1] - (IF a[2] < b[2] THEN 1 ELSE 0)) % Half, (a[2] - b[2]) % Half>>

\* n * x for an int n in 10..49, truncated to 32 bits
U32Mul(n, x) == <<(n * x[1] + ((n * x[2]) \div Half)) % Half, (n * x[2]) % Half>>

RECURSIVE BitAnd(_, _)
BitAnd(a, b) ==
    IF a = 0 \/ b = 0 THEN 0
    ELSE (a % 2) * (b % 2) + 2 * BitAnd(a \div 2, b \div 2)

-----------------------------------------------------------------------------
(* the inputs *)

Proc(cb, ctx, nice, rem, mask) ==
    [callback |-> cb, context |-> ctx, niceness |-> nice,
     remaining_time |-> U32(rem), cpu_mask |-> mask]

NoProc == [callback |-> 0, context |-> 0, niceness |-> 0,
           remaining_time |-> U32(0), cpu_mask |-> 0]

\* the processes a caller pushes
PushInputs ==
    { Proc(1, 1, 11, 0, 1),
      Proc(1, 2, 10, 0, 1),
      Proc(2, 1, 10, 2, 3),
      Proc(2, 1, 10, 2, 0) }

Identities == {<<p.callback, p.context>> : p \in PushInputs}

NiceInputs == {10, 11}

MaskInputs == {1, 2}

\* the quantum handed to run_top
RunTimes == {U32(1), U32(2)}

\* what a callback returns
CallResults == {U32(0), U32(1)}

-----------------------------------------------------------------------------
VARIABLES heap, queue, last

vars == <<heap, queue, last>>

-----------------------------------------------------------------------------
(* pure functions *)

RECURSIVE cpu_count_loop(_, _)
cpu_count_loop(mask, count) ==
    IF mask > 0
    THEN cpu_count_loop(mask \div 2, IF mask % 2 = 1 THEN count + 1 ELSE count)
    ELSE count

\* as cpu_count, with a mask of 8 bits
cpu_count_uint8(mask) == cpu_count_loop(mask % 256, 0)

cpu_count(mask) == cpu_count_loop(mask, 0)

\* as process_evaluation, without the cpu_count comparison on equal priorities
process_evaluation_no_tie_break(push_process, process) ==
    U32Lt(U32Mul(push_process.niceness, push_process.remaining_time),
          U32Mul(process.niceness, process.remaining_time))

\* as process_evaluation, with <= in the cpu_count comparison
process_evaluation_le(push_process, process) ==
    LET push_process_priority == U32Mul(push_process.niceness, push_process.remaining_time)
        process_priority == U32Mul(process.niceness, process.remaining_time)
    IN  IF push_process_priority = process_priority
        THEN cpu_count(push_process.cpu_mask) <= cpu_count(process.cpu_mask)
        ELSE U32Lt(push_process_priority, process_priority)

process_evaluation(push_process, process) ==
    LET push_process_priority == U32Mul(push_process.niceness, push_process.remaining_time)
        process_priority == U32Mul(process.niceness, process.remaining_time)
    IN  IF push_process_priority = process_priority
        THEN cpu_count(push_process.cpu_mask) < cpu_count(process.cpu_mask)
        ELSE U32Lt(push_process_priority, process_priority)

-----------------------------------------------------------------------------
(* the list *)

RECURSIVE Walk(_, _, _)
Walk(h, item, fuel) ==
    IF item = NULL \/ item \notin DOMAIN h \/ fuel = 0 THEN <<>>
    ELSE <<item>> \o Walk(h, h[item].next, fuel - 1)

\* the nodes of a queue from top along next
Items(h, q) == Walk(h, q.top, MaxNodes + 1)

\* the processes of a queue, head first
Procs(h, q) == [i \in 1..Len(Items(h, q)) |-> h[Items(h, q)[i]].process]

Free(h, item) == [a \in DOMAIN h \ {item} |-> h[a]]

create_queue == [top |-> NULL, bottom |-> NULL, size |-> 0]

create_item(h, process, next, prev, ok) ==
    IF ~ok \/ Addr \ DOMAIN h = {} THEN [heap |-> h, item |-> NULL]
    ELSE LET item == Min(Addr \ DOMAIN h)
         IN  [heap |-> (item :> [process |-> process, next |-> next, prev |-> prev]) @@ h,
              item |-> item]

clear_queue(h, q) ==
    [heap |-> [a \in DOMAIN h \ {Items(h, q)[i] : i \in 1..Len(Items(h, q))} |-> h[a]],
     queue |-> [top |-> NULL, bottom |-> NULL, size |-> 0]]

\* as pop_item, leaving the new top's prev as it was
pop_item_stale_prev(h, q, item) ==
    LET q1 == [q EXCEPT !.size = q.size - 1]
    IN  IF item = q1.top
        THEN IF h[q1.top].next = NULL
             THEN clear_queue(h, q1)
             ELSE LET nt == h[q1.top].next
                  IN  [heap |-> Free(h, item), queue |-> [q1 EXCEPT !.top = nt]]
        ELSE IF item = q1.bottom
        THEN LET nb == h[q1.bottom].prev
             IN  [heap |-> Free([h EXCEPT ![nb].next = NULL], item),
                  queue |-> [q1 EXCEPT !.bottom = nb]]
        ELSE [heap |-> Free([h EXCEPT ![h[item].next].prev = h[item].prev,
                                      ![h[item].prev].next = h[item].next], item),
              queue |-> q1]

pop_item(h, q, item) ==
    LET q1 == [q EXCEPT !.size = q.size - 1]
    IN  IF item = q1.top
        THEN IF h[q1.top].next = NULL
             THEN clear_queue(h, q1)
             ELSE LET nt == h[q1.top].next
                  IN  [heap |-> Free([h EXCEPT ![nt].prev = NULL], item),
                       queue |-> [q1 EXCEPT !.top = nt]]
        ELSE IF item = q1.bottom
        THEN LET nb == h[q1.bottom].prev
             IN  [heap |-> Free([h EXCEPT ![nb].next = NULL], item),
                  queue |-> [q1 EXCEPT !.bottom = nb]]
        ELSE [heap |-> Free([h EXCEPT ![h[item].next].prev = h[item].prev,
                                      ![h[item].prev].next = h[item].next], item),
              queue |-> q1]

\* as processes_are_valid, looking at the top node only
processes_are_valid_top_only(h, q, process) ==
    LET p == h[q.top].process
    IN  IF p.callback = process.callback /\ p.context = process.context
        THEN IF /\ p.remaining_time = process.remaining_time
                /\ p.niceness = process.niceness
                /\ p.cpu_mask = process.cpu_mask
             THEN "push_duplicate"
             ELSE "push_inconsistent"
        ELSE "push_success"

\* as processes_are_valid, not comparing cpu_mask
processes_are_valid_no_mask(h, q, process) ==
    LET items == Items(h, q)
        same == {i \in 1..Len(items) :
                    /\ h[items[i]].process.callback = process.callback
                    /\ h[items[i]].process.context = process.context}
    IN  IF same = {} THEN "push_success"
        ELSE LET p == h[items[Min(same)]].process
             IN  IF /\ p.remaining_time = process.remaining_time
                    /\ p.niceness = process.niceness
                 THEN "push_duplicate"
                 ELSE "push_inconsistent"

processes_are_valid(h, q, process) ==
    LET items == Items(h, q)
        same == {i \in 1..Len(items) :
                    /\ h[items[i]].process.callback = process.callback
                    /\ h[items[i]].process.context = process.context}
    IN  IF same = {} THEN "push_success"
        ELSE LET p == h[items[Min(same)]].process
             IN  IF /\ p.remaining_time = process.remaining_time
                    /\ p.niceness = process.niceness
                    /\ p.cpu_mask = process.cpu_mask
                 THEN "push_duplicate"
                 ELSE "push_inconsistent"

\* ok: whether malloc succeeds in this call
push_to_queue(h, q, process, ok) ==
    IF q.top = NULL
    THEN LET c == create_item(h, process, NULL, NULL, ok)
         IN  IF c.item = NULL
             THEN [heap |-> h, queue |-> q, ret |-> "push_error"]
             ELSE [heap |-> c.heap,
                   queue |-> [top |-> c.item, bottom |-> c.item, size |-> q.size + 1],
                   ret |-> "push_success"]
    ELSE LET valid_state == processes_are_valid(h, q, process)
         IN  IF valid_state # "push_success"
             THEN [heap |-> h, queue |-> q, ret |-> valid_state]
             ELSE LET items == Items(h, q)
                      outranked == {i \in 1..Len(items) :
                                       process_evaluation(process, h[items[i]].process)}
                  IN  IF outranked # {}
                      THEN LET item == items[Min(outranked)]
                               c == create_item(h, process, item, h[item].prev, ok)
                           IN  IF c.item = NULL
                               THEN [heap |-> h, queue |-> q, ret |-> "push_error"]
                               ELSE IF item = q.top
                               THEN [heap |-> [c.heap EXCEPT ![q.top].prev = c.item],
                                     queue |-> [q EXCEPT !.top = c.item, !.size = q.size + 1],
                                     ret |-> "push_success"]
                               ELSE [heap |-> [c.heap EXCEPT ![h[item].prev].next = c.item,
                                                             ![item].prev = c.item],
                                     queue |-> [q EXCEPT !.size = q.size + 1],
                                     ret |-> "push_success"]
                      ELSE LET c == create_item(h, process, NULL, q.bottom, ok)
                           IN  IF c.item = NULL
                               THEN [heap |-> h, queue |-> q, ret |-> "push_error"]
                               ELSE [heap |-> [c.heap EXCEPT ![q.bottom].next = c.item],
                                     queue |-> [q EXCEPT !.bottom = c.item, !.size = q.size + 1],
                                     ret |-> "push_success"]

\* as renice, copying the process before the new niceness is stored
renice_stale_copy(h, q, callback, context, niceness, ok) ==
    LET items == Items(h, q)
        same == {i \in 1..Len(items) :
                    /\ h[items[i]].process.callback = callback
                    /\ h[items[i]].process.context = context}
    IN  IF same = {}
        THEN [heap |-> h, queue |-> q, ret |-> FALSE, pushed |-> "none"]
        ELSE LET item == items[Min(same)]
                 p == h[item].process
                 h1 == [h EXCEPT ![item].process.niceness = niceness]
                 popped == pop_item(h1, q, item)
                 pushed == push_to_queue(popped.heap, popped.queue, p, ok)
             IN  [heap |-> pushed.heap, queue |-> pushed.queue, ret |-> TRUE,
                  pushed |-> pushed.ret]

\* as renice, returning whether the push put the process back
renice_checked(h, q, callback, context, niceness, ok) ==
    LET items == Items(h, q)
        same == {i \in 1..Len(items) :
                    /\ h[items[i]].process.callback = callback
                    /\ h[items[i]].process.context = context}
    IN  IF same = {}
        THEN [heap |-> h, queue |-> q, ret |-> FALSE, pushed |-> "none"]
        ELSE LET item == items[Min(same)]
                 h1 == [h EXCEPT ![item].process.niceness = niceness]
                 p == h1[item].process
                 popped == pop_item(h1, q, item)
                 pushed == push_to_queue(popped.heap, popped.queue, p, ok)
             IN  [heap |-> pushed.heap, queue |-> pushed.queue,
                  ret |-> pushed.ret = "push_success", pushed |-> pushed.ret]

renice(h, q, callback, context, niceness, ok) ==
    LET items == Items(h, q)
        same == {i \in 1..Len(items) :
                    /\ h[items[i]].process.callback = callback
                    /\ h[items[i]].process.context = context}
    IN  IF same = {}
        THEN [heap |-> h, queue |-> q, ret |-> FALSE, pushed |-> "none"]
        ELSE LET item == items[Min(same)]
                 h1 == [h EXCEPT ![item].process.niceness = niceness]
                 p == h1[item].process
                 popped == pop_item(h1, q, item)
                 pushed == push_to_queue(popped.heap, popped.queue, p, ok)
             IN  [heap |-> pushed.heap, queue |-> pushed.queue, ret |-> TRUE,
                  pushed |-> pushed.ret]

\* as get_top, taking a node only when its cpu_mask equals the one asked for
get_top_equal_mask(h, q, cpu_mask) ==
    LET items == Items(h, q)
        hit == {i \in 1..Len(items) : h[items[i]].process.cpu_mask = cpu_mask}
    IN  IF hit = {} THEN NULL ELSE items[Min(hit)]

\* as get_top, returning the top node whatever its cpu_mask
get_top_head(h, q, cpu_mask) == q.top

\* as get_top, with | in place of & in the test of the masks
get_top_or(h, q, cpu_mask) ==
    LET items == Items(h, q)
        hit == {i \in 1..Len(items) : h[items[i]].process.cpu_mask # 0 \/ cpu_mask # 0}
    IN  IF hit = {} THEN NULL ELSE items[Min(hit)]

\* as get_top, returning the last node that matches
get_top_last(h, q, cpu_mask) ==
    LET items == Items(h, q)
        hit == {i \in 1..Len(items) : BitAnd(h[items[i]].process.cpu_mask, cpu_mask) # 0}
    IN  IF hit = {} THEN NULL ELSE items[CHOOSE i \in hit : \A j \in hit : j <= i]

\* the node whose process get_top points to, or NULL
get_top(h, q, cpu_mask) ==
    LET items == Items(h, q)
        hit == {i \in 1..Len(items) : BitAnd(h[items[i]].process.cpu_mask, cpu_mask) # 0}
    IN  IF hit = {} THEN NULL ELSE items[Min(hit)]

\* as pop_top, taking the top node whenever some node matches
pop_top_head(h, q, cpu_mask, has_out, out) ==
    LET items == Items(h, q)
        hit == {i \in 1..Len(items) : BitAnd(h[items[i]].process.cpu_mask, cpu_mask) # 0}
    IN  IF hit = {}
        THEN [heap |-> h, queue |-> q, ret |-> FALSE, out |-> out]
        ELSE LET item == q.top
                 popped == pop_item(h, q, item)
             IN  [heap |-> popped.heap, queue |-> popped.queue, ret |-> TRUE,
                  out |-> IF has_out THEN h[item].process ELSE out]

\* as pop_top, with | in place of & in the test of the masks
pop_top_or(h, q, cpu_mask, has_out, out) ==
    LET items == Items(h, q)
        hit == {i \in 1..Len(items) : h[items[i]].process.cpu_mask # 0 \/ cpu_mask # 0}
    IN  IF hit = {}
        THEN [heap |-> h, queue |-> q, ret |-> FALSE, out |-> out]
        ELSE LET item == items[Min(hit)]
                 popped == pop_item(h, q, item)
             IN  [heap |-> popped.heap, queue |-> popped.queue, ret |-> TRUE,
                  out |-> IF has_out THEN h[item].process ELSE out]

\* has_out: whether out is a pointer other than NULL; out: what it points to before
pop_top(h, q, cpu_mask, has_out, out) ==
    LET items == Items(h, q)
        hit == {i \in 1..Len(items) : BitAnd(h[items[i]].process.cpu_mask, cpu_mask) # 0}
    IN  IF hit = {}
        THEN [heap |-> h, queue |-> q, ret |-> FALSE, out |-> out]
        ELSE LET item == items[Min(hit)]
                 popped == pop_item(h, q, item)
             IN  [heap |-> popped.heap, queue |-> popped.queue, ret |-> TRUE,
                  out |-> IF has_out THEN h[item].process ELSE out]

RECURSIVE copy_loop(_, _, _, _, _)
\* items: the source's nodes; i: the one to copy next; failAt: the malloc that fails
copy_loop(h, new_queue, items, i, failAt) ==
    IF i > Len(items) THEN [heap |-> h, queue |-> new_queue, ret |-> TRUE]
    ELSE LET c == create_item(h, h[items[i]].process, NULL, NULL, i # failAt)
             new_item == c.item
         IN  IF new_item = NULL
             THEN [heap |-> clear_queue(h, new_queue).heap, queue |-> new_queue, ret |-> FALSE]
             ELSE LET top == IF new_queue.top = NULL THEN new_item ELSE new_queue.top
                      h1 == IF new_queue.bottom # NULL
                            THEN [c.heap EXCEPT ![new_item].prev = new_queue.bottom,
                                                ![new_queue.bottom].next = new_item]
                            ELSE c.heap
                      h2 == [h1 EXCEPT ![new_item].next = NULL]
                  IN  copy_loop(h2, [top |-> top, bottom |-> new_item,
                                     size |-> new_queue.size + 1],
                                items, i + 1, failAt)

\* as copy_queue, copying the source's top, bottom and size in place of its nodes
copy_queue_shallow(h, dest, source, failAt) ==
    [heap |-> h,
     queue |-> [top |-> source.top, bottom |-> source.bottom, size |-> source.size],
     ret |-> TRUE]

\* as copy_queue, handing dest what was built when a malloc failed
copy_queue_partial(h, dest, source, failAt) ==
    LET r == copy_loop(h, create_queue, Items(h, source), 1, failAt)
    IN  [heap |-> r.heap,
         queue |-> [top |-> r.queue.top, bottom |-> r.queue.bottom, size |-> r.queue.size],
         ret |-> r.ret]

copy_queue(h, dest, source, failAt) ==
    LET r == copy_loop(h, create_queue, Items(h, source), 1, failAt)
    IN  IF r.ret
        THEN [heap |-> r.heap,
              queue |-> [top |-> r.queue.top, bottom |-> r.queue.bottom, size |-> r.queue.size],
              ret |-> TRUE]
        ELSE [heap |-> r.heap, queue |-> dest, ret |-> FALSE]

\* as new_remaining_time, without the subtraction of the quantum
new_remaining_time_call_res(remaining_time, run_time, call_res) == call_res

\* the remaining_time run_top writes back after a callback result other than 0
new_remaining_time(remaining_time, run_time, call_res) ==
    IF U32Lt(run_time, remaining_time)
    THEN U32Add(U32Sub(remaining_time, run_time), call_res)
    ELSE call_res

\* call_res: what the callback returns if it is invoked
run_top(h, q, cpu_mask, run_time, call_res, ok) ==
    IF q.top = NULL
    THEN [heap |-> h, queue |-> q, ret |-> U32(0), invoked |-> NULL, pushed |-> "none"]
    ELSE LET proc == get_top(h, q, cpu_mask)
         IN  IF proc = NULL
             THEN [heap |-> h, queue |-> q, ret |-> U32(0), invoked |-> NULL, pushed |-> "none"]
             ELSE IF call_res = U32(0)
             THEN LET popped == pop_top(h, q, cpu_mask, TRUE, h[proc].process)
                  IN  [heap |-> popped.heap, queue |-> popped.queue, ret |-> U32(0),
                       invoked |-> proc, pushed |-> "none"]
             ELSE LET h1 == [h EXCEPT ![proc].process.remaining_time =
                                 new_remaining_time(h[proc].process.remaining_time,
                                                    run_time, call_res)]
                      popped == pop_top(h1, q, cpu_mask, TRUE, NoProc)
                      p == popped.out
                      pushed == push_to_queue(popped.heap, popped.queue, p, ok)
                  IN  [heap |-> pushed.heap, queue |-> pushed.queue,
                       ret |-> p.remaining_time, invoked |-> proc, pushed |-> pushed.ret]

-----------------------------------------------------------------------------
(* the state machine: one action per call of the interface *)

\* the last call: its name, its arguments and what it returned
\*   q        the queue it was made on (dest for copy_queue)
\*   process  the process pushed, the identity and niceness given to renice,
\*            or what pop_top left in *out
\*   arg      cpu_mask (get_top, pop_top, run_top) or the source (copy_queue)
\*   run_time the quantum given to run_top
\*   has_out  whether pop_top was given an out other than NULL
\*   call_res what the callback returned, when run_top invoked one
\*   ret      the value returned
\*   out      the node get_top or run_top selected
\*   pushed   what the push inside renice and run_top returned
Call(op, q) ==
    [op |-> op, q |-> q, process |-> NoProc, arg |-> 0, run_time |-> U32(0),
     call_res |-> U32(0), has_out |-> TRUE, ret |-> "none", out |-> NULL, pushed |-> "none"]

Init ==
    /\ heap = <<>>
    /\ queue = [q \in QueueIds |-> create_queue]
    /\ last = Call("create_queue", 1)

PushToQueue(q) ==
    \E process \in PushInputs, ok \in BOOLEAN :
        \E r \in {push_to_queue(heap, queue[q], process, ok)} :
            /\ heap' = r.heap
            /\ queue' = [queue EXCEPT ![q] = r.queue]
            /\ last' = [Call("push_to_queue", q) EXCEPT
                            !.process = process, !.ret = r.ret]

Renice(q) ==
    \E id \in Identities, niceness \in NiceInputs, ok \in BOOLEAN :
        \E r \in {renice(heap, queue[q], id[1], id[2], niceness, ok)} :
            /\ heap' = r.heap
            /\ queue' = [queue EXCEPT ![q] = r.queue]
            /\ last' = [Call("renice", q) EXCEPT
                            !.process = [NoProc EXCEPT !.callback = id[1], !.context = id[2],
                                                       !.niceness = niceness],
                            !.ret = r.ret, !.pushed = r.pushed]

GetTop(q) ==
    \E cpu_mask \in MaskInputs :
        /\ UNCHANGED <<heap, queue>>
        /\ last' = [Call("get_top", q) EXCEPT
                        !.arg = cpu_mask, !.out = get_top(heap, queue[q], cpu_mask)]

PopTop(q) ==
    \E cpu_mask \in MaskInputs, has_out \in BOOLEAN :
        \E r \in {pop_top(heap, queue[q], cpu_mask, has_out, NoProc)} :
            /\ heap' = r.heap
            /\ queue' = [queue EXCEPT ![q] = r.queue]
            /\ last' = [Call("pop_top", q) EXCEPT
                            !.arg = cpu_mask, !.has_out = has_out, !.ret = r.ret,
                            !.process = r.out]

\* dest holds no nodes: copy_queue overwrites dest's top, bottom and size
\* without freeing what they led to, so a caller hands it a fresh queue
CopyQueue(dest, source) ==
    \E failAt \in 0..Len(Items(heap, queue[source])) :
        \E r \in {copy_queue(heap, queue[dest], queue[source], failAt)} :
            /\ queue[dest].top = NULL
            /\ heap' = r.heap
            /\ queue' = [queue EXCEPT ![dest] = r.queue]
            /\ last' = [Call("copy_queue", dest) EXCEPT
                            !.arg = source, !.ret = r.ret]

ClearQueue(q) ==
    \E r \in {clear_queue(heap, queue[q])} :
        /\ heap' = r.heap
        /\ queue' = [queue EXCEPT ![q] = r.queue]
        /\ last' = Call("clear_queue", q)

RunTop(q) ==
    \E cpu_mask \in MaskInputs, run_time \in RunTimes,
       call_res \in CallResults, ok \in BOOLEAN :
        \E r \in {run_top(heap, queue[q], cpu_mask, run_time, call_res, ok)} :
            /\ heap' = r.heap
            /\ queue' = [queue EXCEPT ![q] = r.queue]
            /\ last' = [Call("run_top", q) EXCEPT
                            !.arg = cpu_mask, !.run_time = run_time,
                            !.call_res = IF r.invoked = NULL THEN U32(0) ELSE call_res,
                            !.ret = r.ret, !.out = r.invoked, !.pushed = r.pushed]

-----------------------------------------------------------------------------
(* Spec: a caller that works on queue 1 and takes copies of it into queue 2. *)
(* It copies into the empty queue 2, looks at the copy and clears it before  *)
(* it changes queue 1 again.  Every call is one step: the queue is not       *)
(* synchronized and the calls of Spec do not overlap.                        *)

Working == {q \in QueueIds : \A c \in QueueIds : q <= c}

Copies == QueueIds \ Working

NoCopy == \A c \in Copies : queue[c].top = NULL

Next ==
    \/ \E q \in Working : NoCopy /\ PushToQueue(q)
    \/ \E q \in Working : NoCopy /\ Renice(q)
    \/ \E q \in Working : NoCopy /\ PopTop(q)
    \/ \E q \in Working : NoCopy /\ RunTop(q)
    \/ \E q \in Working : NoCopy /\ ClearQueue(q)
    \/ \E q \in QueueIds : GetTop(q)
    \/ \E q \in Working, c \in Copies : CopyQueue(c, q)
    \/ \E c \in Copies : ClearQueue(c)

Spec == Init /\ [][Next]_vars

-----------------------------------------------------------------------------
(* SpecEval: single calls on chosen arguments.  The initial state holds the  *)
(* arguments of one call, drawn from values that reach both ends of the      *)
(* unsigned int range, and the one step makes the call.                      *)

\* 400 000 000 and UINT_MAX as unsigned int
EvalTimes == {U32(0), U32(1), <<6103, 33792>>, <<CPU_MASK_MAX, CPU_MASK_MAX>>}

EvalProcs ==
    {[Proc(1, 1, niceness, 0, cpu_mask) EXCEPT !.remaining_time = remaining_time] :
        niceness \in {10, 11, 49}, remaining_time \in EvalTimes, cpu_mask \in {0, 1, 3}}

EvalRunTimes == {U32(1), U32(2)}

EvalCallResults == {U32(0), U32(1), U32(2)}

\* one call: its name, its arguments and, once done, what it returned
\*   a, b, c   the processes given to process_evaluation; a the one queued
\*             for run_top
\*   mask      the mask given to cpu_count, the cpu_mask given to run_top
\*   before    before[i][j]: process_evaluation of the i-th and the j-th of a, b, c
\*   count     what cpu_count returned
\*   ret       what run_top returned
EvalCall(op) ==
    [op |-> op, done |-> FALSE, a |-> NoProc, b |-> NoProc, c |-> NoProc,
     mask |-> 0, run_time |-> U32(0), call_res |-> U32(0),
     before |-> [i \in 1..3 |-> [j \in 1..3 |-> FALSE]], count |-> 0, ret |-> U32(0)]

EvalInit ==
    /\ heap = <<>>
    /\ queue = [q \in QueueIds |-> create_queue]
    /\ \/ \E a \in EvalProcs, b \in EvalProcs, c \in EvalProcs :
              last = [EvalCall("process_evaluation") EXCEPT !.a = a, !.b = b, !.c = c]
       \/ \E mask \in 0..CPU_MASK_MAX :
              last = [EvalCall("cpu_count") EXCEPT !.mask = mask]
       \/ \E a \in EvalProcs, run_time \in EvalRunTimes, call_res \in EvalCallResults :
              last = [EvalCall("run_top") EXCEPT !.a = a, !.mask = 1,
                          !.run_time = run_time, !.call_res = call_res]

ProcessEvaluation ==
    /\ last.op = "process_evaluation" /\ ~last.done
    /\ \E p \in {<<last.a, last.b, last.c>>} :
           last' = [last EXCEPT !.done = TRUE,
                        !.before = [i \in 1..3 |-> [j \in 1..3 |->
                                       process_evaluation(p[i], p[j])]]]
    /\ UNCHANGED <<heap, queue>>

CpuCount ==
    /\ last.op = "cpu_count" /\ ~last.done
    /\ last' = [last EXCEPT !.done = TRUE, !.count = cpu_count(last.mask)]
    /\ UNCHANGED <<heap, queue>>

\* run_top on a queue that holds last.a alone
RunTopAlone ==
    /\ last.op = "run_top" /\ ~last.done
    /\ \E pushed \in {push_to_queue(heap, queue[1], last.a, TRUE)} :
       \E r \in {run_top(pushed.heap, pushed.queue, last.mask, last.run_time,
                          last.call_res, TRUE)} :
           /\ heap' = r.heap
           /\ queue' = [queue EXCEPT ![1] = r.queue]
           /\ last' = [last EXCEPT !.done = TRUE, !.ret = r.ret]

EvalNext ==
    \/ ProcessEvaluation
    \/ CpuCount
    \/ RunTopAlone

SpecEval == EvalInit /\ [][EvalNext]_vars

-----------------------------------------------------------------------------
(* SpecCopy: a caller that keeps a copy in use.  Queue 1 is worked on as in  *)
(* Spec; queue 2 is filled by copy_queue alone, and while it holds nodes the *)
(* caller pushes, pops, renices, runs and clears on either queue.  The calls *)
(* take fewer arguments than those of Spec.                                  *)

CopyPushInputs == {Proc(1, 1, 11, 0, 1), Proc(2, 1, 10, 2, 3)}

CopyIdentities == {<<p.callback, p.context>> : p \in CopyPushInputs}

CopyRunTimes == {U32(1)}

PushToQueue2(q) ==
    \E process \in CopyPushInputs, ok \in BOOLEAN :
        \E r \in {push_to_queue(heap, queue[q], process, ok)} :
            /\ heap' = r.heap
            /\ queue' = [queue EXCEPT ![q] = r.queue]
            /\ last' = [Call("push_to_queue", q) EXCEPT
                            !.process = process, !.ret = r.ret]

Renice2(q) ==
    \E id \in CopyIdentities, niceness \in NiceInputs, ok \in BOOLEAN :
        \E r \in {renice(heap, queue[q], id[1], id[2], niceness, ok)} :
            /\ heap' = r.heap
            /\ queue' = [queue EXCEPT ![q] = r.queue]
            /\ last' = [Call("renice", q) EXCEPT
                            !.process = [NoProc EXCEPT !.callback = id[1], !.context = id[2],
                                                       !.niceness = niceness],
                            !.ret = r.ret, !.pushed = r.pushed]

PopTop2(q) ==
    \E cpu_mask \in MaskInputs :
        \E r \in {pop_top(heap, queue[q], cpu_mask, TRUE, NoProc)} :
            /\ heap' = r.heap
            /\ queue' = [queue EXCEPT ![q] = r.queue]
            /\ last' = [Call("pop_top", q) EXCEPT
                            !.arg = cpu_mask, !.ret = r.ret, !.process = r.out]

RunTop2(q) ==
    \E cpu_mask \in MaskInputs, run_time \in CopyRunTimes,
       call_res \in CallResults, ok \in BOOLEAN :
        \E r \in {run_top(heap, queue[q], cpu_mask, run_time, call_res, ok)} :
            /\ heap' = r.heap
            /\ queue' = [queue EXCEPT ![q] = r.queue]
            /\ last' = [Call("run_top", q) EXCEPT
                            !.arg = cpu_mask, !.run_time = run_time,
                            !.call_res = IF r.invoked = NULL THEN U32(0) ELSE call_res,
                            !.ret = r.ret, !.out = r.invoked, !.pushed = r.pushed]

\* the queues the caller makes calls on
InUse == Working \cup {c \in Copies : queue[c].top # NULL}

CopyNext ==
    \/ \E q \in InUse : PushToQueue2(q)
    \/ \E q \in InUse : Renice2(q)
    \/ \E q \in InUse : PopTop2(q)
    \/ \E q \in InUse : RunTop2(q)
    \/ \E q \in InUse : ClearQueue(q)
    \/ \E q \in Working, c \in Copies : CopyQueue(c, q)

SpecCopy == Init /\ [][CopyNext]_vars

-----------------------------------------------------------------------------
(* SpecRace: run_top called from two CPUs on queue 1 with nothing that       *)
(* serializes the calls.  A call is three steps, its get_top, its callback   *)
(* and the rest, and the steps of the two calls interleave.  proc points     *)
(* into a node; once another call has freed that node, what is read through  *)
(* proc and what a write through proc does is not defined, and the model     *)
(* takes any of: the value of a process once pushed, a write that is lost,   *)
(* the program ended.  Pushes are made while no call is in flight.  In this  *)
(* specification last holds the calls of the two CPUs.                       *)

Cpus == {1, 2}

RacePushInputs == {Proc(1, 1, 11, 0, 1), Proc(2, 1, 10, 2, 3)}

RaceRunTimes == {U32(1)}

\* the run_top call of one CPU
\*   pc        "idle", "selected" after get_top, "invoked" after the callback
\*   proc      the node get_top returned
\*   invoked   the callback and context that were called
\*   alone     no step of another call since this call's get_top
RaceIdle ==
    [pc |-> "idle", cpu_mask |-> 0, run_time |-> U32(0), proc |-> NULL,
     call_res |-> U32(0), invoked |-> <<0, 0>>, alone |-> TRUE]

RaceCalls(cpu) == [op |-> "run_top", crashed |-> FALSE, cpu |-> cpu]

RaceInit ==
    /\ heap = <<>>
    /\ queue = [q \in QueueIds |-> create_queue]
    /\ last = RaceCalls([t \in Cpus |-> RaceIdle])

RacePush ==
    /\ ~last.crashed
    /\ \A t \in Cpus : last.cpu[t].pc = "idle"
    /\ \E process \in RacePushInputs, ok \in BOOLEAN :
           \E r \in {push_to_queue(heap, queue[1], process, ok)} :
               /\ heap' = r.heap
               /\ queue' = [queue EXCEPT ![1] = r.queue]
               /\ last' = RaceCalls([t \in Cpus |-> RaceIdle])

\* the calls of the other CPUs, no longer alone if in flight
Overlapped(t) ==
    [u \in Cpus |-> IF u # t /\ last.cpu[u].pc # "idle"
                     THEN [last.cpu[u] EXCEPT !.alone = FALSE]
                     ELSE last.cpu[u]]

\* scheduler.c 277 - 286: the empty queue, get_top, and the return of 0
RunTopSelect(t) ==
    /\ ~last.crashed
    /\ last.cpu[t].pc = "idle"
    /\ \E cpu_mask \in MaskInputs, run_time \in RaceRunTimes :
       \E proc \in {IF queue[1].top = NULL THEN NULL ELSE get_top(heap, queue[1], cpu_mask)} :
           last' = IF proc = NULL
                   THEN [last EXCEPT !.cpu[t] = RaceIdle]
                   ELSE [last EXCEPT !.cpu =
                            [Overlapped(t) EXCEPT ![t] =
                                [RaceIdle EXCEPT !.pc = "selected", !.cpu_mask = cpu_mask,
                                    !.run_time = run_time, !.proc = proc,
                                    !.alone = \A u \in Cpus \ {t} : last.cpu[u].pc = "idle"]]]
    /\ UNCHANGED <<heap, queue>>

\* scheduler.c 288: the call through proc->callback
RunTopInvoke(t) ==
    /\ ~last.crashed
    /\ last.cpu[t].pc = "selected"
    /\ \E call_res \in CallResults :
           IF last.cpu[t].proc \in DOMAIN heap
           THEN \E p \in {heap[last.cpu[t].proc].process} :
                    last' = [last EXCEPT !.cpu =
                                [Overlapped(t) EXCEPT ![t].pc = "invoked",
                                                      ![t].call_res = call_res,
                                                      ![t].invoked = <<p.callback, p.context>>]]
           ELSE \/ last' = [last EXCEPT !.crashed = TRUE]
                \/ \E p \in RacePushInputs :
                       last' = [last EXCEPT !.cpu =
                                   [Overlapped(t) EXCEPT ![t].pc = "invoked",
                                                         ![t].call_res = call_res,
                                                         ![t].invoked = <<p.callback, p.context>>]]
    /\ UNCHANGED <<heap, queue>>

\* scheduler.c 289 - 303 with proc, cpu_mask, run_time and call_res as they are
\*   lost     whether a write through a proc whose node was freed has no effect
\*   garbage  what an uninitialized process_type holds
run_top_rest(h, q, proc, cpu_mask, run_time, call_res, ok, lost, garbage) ==
    LET live == proc \in DOMAIN h
        item == get_top(h, q, cpu_mask)
    IN  IF call_res = U32(0)
        THEN IF item = NULL
             THEN [heap |-> h, queue |-> q, ret |-> U32(0), crashed |-> FALSE]
             ELSE IF ~live /\ ~lost
             THEN [heap |-> h, queue |-> q, ret |-> U32(0), crashed |-> TRUE]
             ELSE LET h1 == IF live THEN [h EXCEPT ![proc].process = h[item].process] ELSE h
                      popped == pop_item(h1, q, item)
                  IN  [heap |-> popped.heap, queue |-> popped.queue, ret |-> U32(0),
                       crashed |-> FALSE]
        ELSE IF ~live /\ ~lost
        THEN [heap |-> h, queue |-> q, ret |-> U32(0), crashed |-> TRUE]
        ELSE LET h1 == IF live
                       THEN [h EXCEPT ![proc].process.remaining_time =
                                new_remaining_time(h[proc].process.remaining_time,
                                                   run_time, call_res)]
                       ELSE h
                 popped == pop_top(h1, q, cpu_mask, TRUE, garbage)
                 p == popped.out
                 pushed == push_to_queue(popped.heap, popped.queue, p, ok)
             IN  [heap |-> pushed.heap, queue |-> pushed.queue, ret |-> p.remaining_time,
                  crashed |-> FALSE]

RunTopRest(t) ==
    /\ ~last.crashed
    /\ last.cpu[t].pc = "invoked"
    /\ \E ok \in BOOLEAN, lost \in BOOLEAN, garbage \in RacePushInputs :
       \E c \in {last.cpu[t]} :
       \E r \in {run_top_rest(heap, queue[1], c.proc, c.cpu_mask, c.run_time,
                               c.call_res, ok, lost, garbage)} :
           /\ heap' = r.heap
           /\ queue' = [queue EXCEPT ![1] = r.queue]
           /\ last' = [last EXCEPT !.crashed = r.crashed,
                                    !.cpu = [Overlapped(t) EXCEPT ![t] = RaceIdle]]

RaceNext ==
    \/ RacePush
    \/ \E t \in Cpus : RunTopSelect(t)
    \/ \E t \in Cpus : RunTopInvoke(t)
    \/ \E t \in Cpus : RunTopRest(t)

SpecRace == RaceInit /\ [][RaceNext]_vars

-----------------------------------------------------------------------------
(* what the properties are stated in *)

\* the processes queue q holds, head first
Q(q) == Procs(heap, queue[q])

\* the processes queue q holds after the step
QNext(q) == Procs(heap', queue'[q])

SameIdentity(a, b) == a.callback = b.callback /\ a.context = b.context

Bit(mask, i) == (mask \div (2 ^ i)) % 2 = 1

SetBits(mask) == Cardinality({i \in 0..15 : Bit(mask, i)})

Intersects(a, b) == \E i \in 0..15 : Bit(a, i) /\ Bit(b, i)

\* the 32-bit product niceness * remaining_time
Score(p) == U32Mul(p.niceness, p.remaining_time)

Outranks(a, b) ==
    \/ U32Lt(Score(a), Score(b))
    \/ Score(a) = Score(b) /\ SetBits(a.cpu_mask) < SetBits(b.cpu_mask)

\* index of the first process of s a cpu_mask selects, 0 when there is none
FirstSelected(s, mask) ==
    IF \E i \in 1..Len(s) : Intersects(s[i].cpu_mask, mask)
    THEN Min({i \in 1..Len(s) : Intersects(s[i].cpu_mask, mask)})
    ELSE 0

\* index of the process of s with the identity of p, 0 when there is none
IndexOf(s, p) ==
    IF \E i \in 1..Len(s) : SameIdentity(s[i], p)
    THEN Min({i \in 1..Len(s) : SameIdentity(s[i], p)})
    ELSE 0

RemoveAt(s, i) == SubSeq(s, 1, i - 1) \o SubSeq(s, i + 1, Len(s))

Elements(s) == {s[k] : k \in 1..Len(s)}

\* In the step properties below, \A x \in {e} : F names the value of e once.

-----------------------------------------------------------------------------
\* C1: after every call the chain of every queue is sorted under the
\* comparator: of two adjacent nodes the later one never outranks the earlier
\* one, where outranks compares niceness * remaining_time first and the number
\* of set bits of cpu_mask on equal scores.
C1_Sorted ==
    \A q \in QueueIds : \A i \in 1..(Len(Q(q)) - 1) : ~Outranks(Q(q)[i + 1], Q(q)[i])

\* a queue of three nodes in which a score tie is broken by the set bits,
\* reached by a re-queue of run_top
C1_Witness ==
    /\ last.op = "run_top" /\ last.pushed = "push_success"
    /\ Len(Q(last.q)) = 3
    /\ \E i \in 1..2 : /\ Score(Q(last.q)[i]) = Score(Q(last.q)[i + 1])
                       /\ SetBits(Q(last.q)[i].cpu_mask) < SetBits(Q(last.q)[i + 1].cpu_mask)

\* C2: no queue ever holds two entries with the same (callback, context).
C2_UniqueIdentity ==
    \A q \in QueueIds : \A i, j \in 1..Len(Q(q)) :
        SameIdentity(Q(q)[i], Q(q)[j]) => i = j

\* a push of an identity that is queued behind the top is turned down, and
\* the queue holds every identity once
C2_Witness ==
    /\ last.op = "push_to_queue"
    /\ last.ret \in {"push_duplicate", "push_inconsistent"}
    /\ Len(Q(last.q)) = 3
    /\ IndexOf(Q(last.q), last.process) > 1

\* C3: after every call size is the number of nodes reachable from top by
\* next, top and bottom are NULL exactly when size is 0, top has no prev,
\* bottom has no next, and n->next->prev is n for every node with a next.
C3_Structure ==
    \A q \in QueueIds :
        LET items == Items(heap, queue[q])
        IN  /\ queue[q].size = Len(items)
            /\ (queue[q].top = NULL) = (queue[q].size = 0)
            /\ (queue[q].bottom = NULL) = (queue[q].size = 0)
            /\ \A i \in 1..Len(items) : items[i] \in DOMAIN heap
            /\ queue[q].top # NULL => heap[queue[q].top].prev = NULL
            /\ queue[q].bottom # NULL =>
                   /\ queue[q].bottom \in DOMAIN heap
                   /\ heap[queue[q].bottom].next = NULL
                   /\ items[Len(items)] = queue[q].bottom
            /\ \A i \in 1..Len(items) :
                   heap[items[i]].next # NULL =>
                       /\ heap[items[i]].next \in DOMAIN heap
                       /\ heap[heap[items[i]].next].prev = items[i]

\* pop_top took a node with one set bit out of three and two nodes stay linked
C3_Witness ==
    /\ last.op = "pop_top" /\ last.ret = TRUE
    /\ queue[last.q].size = 2
    /\ SetBits(Q(last.q)[1].cpu_mask) = 1
    /\ SetBits(last.process.cpu_mask) = 1

\* C4: a push of a process whose (callback, context) is queued returns
\* push_duplicate when remaining_time, niceness and cpu_mask equal the queued
\* entry's and push_inconsistent when one differs, and changes nothing.
C4_RejectedPush ==
    [][ last'.op = "push_to_queue" =>
            \A pre \in {Q(last'.q)} : \A i \in 1..Len(pre) :
                SameIdentity(pre[i], last'.process) =>
                    /\ last'.ret = (IF /\ pre[i].remaining_time = last'.process.remaining_time
                                       /\ pre[i].niceness = last'.process.niceness
                                       /\ pre[i].cpu_mask = last'.process.cpu_mask
                                    THEN "push_duplicate" ELSE "push_inconsistent")
                    /\ heap' = heap
                    /\ queue' = queue ]_vars

\* a push that differs from the queued entry in cpu_mask only
C4_Witness ==
    /\ last.op = "push_to_queue" /\ last.ret = "push_inconsistent"
    /\ \E i \in 1..Len(Q(last.q)) :
           /\ SameIdentity(Q(last.q)[i], last.process)
           /\ Q(last.q)[i].remaining_time = last.process.remaining_time
           /\ Q(last.q)[i].niceness = last.process.niceness
           /\ Q(last.q)[i].cpu_mask # last.process.cpu_mask

\* C5: get_top returns the node nearest the head whose cpu_mask & mask is not
\* zero, or nothing when there is none, and leaves the queue as it was.
C5_GetTop ==
    [][ last'.op = "get_top" =>
            \A i \in {FirstSelected(Q(last'.q), last'.arg)} :
                /\ last'.out = (IF i = 0 THEN NULL ELSE Items(heap, queue[last'.q])[i])
                /\ heap' = heap
                /\ queue' = queue ]_vars

\* get_top passed over the top node and returned a later one whose cpu_mask
\* is not the mask asked for
C5_Witness ==
    /\ last.op = "get_top" /\ last.out # NULL
    /\ last.out # queue[last.q].top
    /\ heap[last.out].process.cpu_mask # last.arg

\* C6: pop_top removes the node nearest the head whose cpu_mask intersects the
\* mask and returns its process: the queue is the previous sequence with that
\* one element deleted; with no such node it returns false and changes nothing.
C6_PopTop ==
    [][ last'.op = "pop_top" =>
            \A pre \in {Q(last'.q)} : \A i \in {FirstSelected(pre, last'.arg)} :
                IF i = 0
                THEN /\ last'.ret = FALSE
                     /\ heap' = heap
                     /\ queue' = queue
                     /\ last'.process = NoProc
                ELSE /\ last'.ret = TRUE
                     /\ QNext(last'.q) = RemoveAt(pre, i)
                     /\ queue'[last'.q].size = queue[last'.q].size - 1
                     /\ last'.has_out => last'.process = pre[i]
                     /\ \A c \in QueueIds \ {last'.q} : queue'[c] = queue[c] /\ QNext(c) = Q(c) ]_vars

\* pop_top took a node from between two others and stored its process
C6_Witness ==
    /\ last.op = "pop_top" /\ last.ret = TRUE /\ last.has_out
    /\ Len(Q(last.q)) = 2
    /\ Outranks(Q(last.q)[1], last.process)
    /\ Outranks(last.process, Q(last.q)[2])

\* C7: a renice to a niceness lower than the entry's, remaining_time as it
\* is, never moves the entry later: its position from the head after the call
\* is at most its position before.
C7_ReniceLowerNotLater ==
    [][ last'.op = "renice" =>
            \A pre \in {Q(last'.q)} :
            \A i \in {IndexOf(pre, last'.process)}, j \in {IndexOf(QNext(last'.q), last'.process)} :
                (i > 0 /\ j > 0 /\ last'.process.niceness < pre[i].niceness) => j <= i ]_vars

\* C8: renice returns true exactly when the identity is queued; on false
\* nothing changes; on true, the re-push's malloc succeeding, the queue holds
\* the same entries and size, the matched entry with the new niceness and its
\* remaining_time and cpu_mask as before, and the re-push never returns
\* push_duplicate or push_inconsistent.
C8_Renice ==
    [][ last'.op = "renice" =>
            \A pre \in {Q(last'.q)}, post \in {QNext(last'.q)} :
            \A i \in {IndexOf(pre, last'.process)} :
                /\ last'.ret = (i > 0)
                /\ i = 0 => heap' = heap /\ queue' = queue
                /\ i > 0 => last'.pushed \in {"push_success", "push_error"}
                /\ (i > 0 /\ last'.pushed # "push_error") =>
                       /\ queue'[last'.q].size = queue[last'.q].size
                       /\ Len(post) = Len(pre)
                       /\ Elements(post) =
                              (Elements(pre) \ {pre[i]})
                                  \cup {[pre[i] EXCEPT !.niceness = last'.process.niceness]} ]_vars

\* renice found its entry in a queue of three, gave it a new niceness and
\* the re-push put it between the two others
C8_Witness ==
    /\ last.op = "renice" /\ last.ret = TRUE /\ last.pushed = "push_success"
    /\ Len(Q(last.q)) = 3
    /\ IndexOf(Q(last.q), last.process) = 2
    /\ Q(last.q)[2].niceness = last.process.niceness

\* C9: when run_top invokes a callback that returns 0 it returns 0, size goes
\* down by 1, the entry removed is the one invoked, which is the first from
\* the head whose cpu_mask intersects the mask, and the others keep their
\* values and order.
C9_RunTopCompleted ==
    [][ (last'.op = "run_top" /\ last'.out # NULL /\ last'.call_res = U32(0)) =>
            \A pre \in {Q(last'.q)} : \A i \in {FirstSelected(pre, last'.arg)} :
                /\ last'.ret = U32(0)
                /\ i > 0
                /\ Items(heap, queue[last'.q])[i] = last'.out
                /\ queue'[last'.q].size = queue[last'.q].size - 1
                /\ QNext(last'.q) = RemoveAt(pre, i) ]_vars

\* run_top invoked a process behind the top, got 0 and took it out of three
C9_Witness ==
    /\ last.op = "run_top" /\ last.out # NULL /\ last.call_res = U32(0)
    /\ last.ret = U32(0)
    /\ Len(Q(last.q)) = 2
    /\ \A k \in 1..2 : ~Intersects(Q(last.q)[k].cpu_mask, last.arg)

\* remaining_time - run_time + call_res in 32 bits
RequeuedTime(remaining_time, run_time, call_res) ==
    LET low == remaining_time[2] - run_time[2] + call_res[2]
        high == remaining_time[1] - run_time[1] + call_res[1] + (low - (low % Half)) \div Half
    IN  <<high % Half, low % Half>>

\* C10: when run_top invokes a process with remaining time r, quantum q, and
\* the callback returns v > 0 and the re-push's malloc succeeds, size is as
\* before, the entry is queued with remaining_time r - q + v if r > q and v
\* otherwise, its niceness and cpu_mask as before, no other entry changed, and
\* run_top returns the new remaining_time.
C10_RunTopRequeued ==
    [][ (/\ last'.op = "run_top" /\ last'.out # NULL
         /\ last'.call_res # U32(0) /\ last'.pushed # "push_error") =>
            \A pre \in {Q(last'.q)}, post \in {QNext(last'.q)} :
            \A i \in {FirstSelected(pre, last'.arg)} :
                /\ i > 0
                /\ Items(heap, queue[last'.q])[i] = last'.out
                /\ last'.pushed = "push_success"
                /\ queue'[last'.q].size = queue[last'.q].size
                /\ Len(post) = Len(pre)
                /\ \A new \in {IF U32Lt(last'.run_time, pre[i].remaining_time)
                               THEN RequeuedTime(pre[i].remaining_time, last'.run_time,
                                                 last'.call_res)
                               ELSE last'.call_res} :
                       /\ Elements(post) = (Elements(pre) \ {pre[i]})
                                               \cup {[pre[i] EXCEPT !.remaining_time = new]}
                       /\ last'.ret = new ]_vars

\* run_top re-queued a process whose remaining_time was above the quantum:
\* with callback results of at most 1, a return of 2 is 2 - 1 + 1
C10_Witness ==
    /\ last.op = "run_top" /\ last.out # NULL /\ last.pushed = "push_success"
    /\ last.call_res = U32(1) /\ last.run_time = U32(1)
    /\ last.ret = U32(2)
    /\ Len(Q(last.q)) = 3

\* C11: when the queue is empty or no queued process has a cpu_mask that
\* intersects the mask, run_top returns 0, invokes no callback and leaves the
\* size, the order, the nodes and their contents as they were.
C11_RunTopNothingEligible ==
    [][ (last'.op = "run_top" /\ FirstSelected(Q(last'.q), last'.arg) = 0) =>
            /\ last'.ret = U32(0)
            /\ last'.out = NULL
            /\ last'.pushed = "none"
            /\ heap' = heap
            /\ queue' = queue ]_vars

\* run_top was asked for a mask that none of two queued processes intersects
C11_Witness ==
    /\ last.op = "run_top" /\ last.out = NULL /\ last.ret = U32(0)
    /\ Len(Q(last.q)) = 2
    /\ \A k \in 1..2 : ~Intersects(Q(last.q)[k].cpu_mask, last.arg)

\* C13: a failed allocation is reported as a value and changes nothing.  A
\* push_to_queue that returns push_error leaves every queue and every node as
\* it was, and one that returns push_success has made exactly one node.  A
\* copy_queue that returns false leaves the source, dest's top, bottom and size
\* and every node as they were and keeps none of the nodes it had made, and
\* one that returns true has made one node for each node of the source.
C13_AllocationFailure ==
    [][ /\ (last'.op = "push_to_queue" /\ last'.ret = "push_error") =>
                heap' = heap /\ queue' = queue
        /\ (last'.op = "push_to_queue" /\ last'.ret = "push_success") =>
                /\ DOMAIN heap \subseteq DOMAIN heap'
                /\ Cardinality(DOMAIN heap') = Cardinality(DOMAIN heap) + 1
        /\ (last'.op = "copy_queue" /\ last'.ret = FALSE) =>
                heap' = heap /\ queue' = queue
        /\ (last'.op = "copy_queue" /\ last'.ret = TRUE) =>
                /\ DOMAIN heap \subseteq DOMAIN heap'
                /\ Cardinality(DOMAIN heap') =
                       Cardinality(DOMAIN heap) + Len(Q(last'.arg)) ]_vars

\* copy_queue gave up on a source of three nodes: dest is empty and the three
\* nodes of the source are the only ones
C13_Witness ==
    /\ last.op = "copy_queue" /\ last.ret = FALSE
    /\ Len(Q(last.arg)) = 3
    /\ queue[last.q] = create_queue
    /\ Cardinality(DOMAIN heap) = 3

\* the same score and the same number of eligible CPUs
SameKey(a, b) == Score(a) = Score(b) /\ SetBits(a.cpu_mask) = SetBits(b.cpu_mask)

\* where a push puts process into s: before the first one it outranks, or
\* behind the last
InsertAt(s, process) ==
    IF \E i \in 1..Len(s) : Outranks(process, s[i])
    THEN Min({i \in 1..Len(s) : Outranks(process, s[i])})
    ELSE Len(s) + 1

C17_RequeueLosesProcess ==
    [][ /\ (last'.op = "renice" /\ last'.pushed = "push_error") =>
                \A pre \in {Q(last'.q)}, post \in {QNext(last'.q)} :
                \A i \in {IndexOf(pre, last'.process)} :
                    /\ last'.ret = TRUE
                    /\ i > 0
                    /\ IndexOf(post, last'.process) = 0
                    /\ queue'[last'.q].size = queue[last'.q].size - 1
                    /\ post = RemoveAt(pre, i)
        /\ (last'.op = "run_top" /\ last'.pushed = "push_error") =>
                \A pre \in {Q(last'.q)}, post \in {QNext(last'.q)} :
                \A i \in {FirstSelected(pre, last'.arg)} :
                    /\ i > 0
                    /\ last'.call_res # U32(0)
                    /\ last'.ret = IF U32Lt(last'.run_time, pre[i].remaining_time)
                                   THEN RequeuedTime(pre[i].remaining_time, last'.run_time,
                                                     last'.call_res)
                                   ELSE last'.call_res
                    /\ IndexOf(post, pre[i]) = 0
                    /\ queue'[last'.q].size = queue[last'.q].size - 1
                    /\ post = RemoveAt(pre, i) ]_vars

\* renice returned true and its identity is not among the two entries left
C17_Witness ==
    /\ last.op = "renice" /\ last.ret = TRUE /\ last.pushed = "push_error"
    /\ queue[last.q].size = 2
    /\ IndexOf(Q(last.q), last.process) = 0

\* run_top returned the remaining_time 2 of a process that is queued no more
C17_WitnessRunTop ==
    /\ last.op = "run_top" /\ last.pushed = "push_error"
    /\ last.ret = U32(2)
    /\ queue[last.q].size = 2
    /\ \A k \in 1..Len(Q(last.q)) : Q(last.q)[k].remaining_time # U32(2)

\* the nodes of queue q whose process has cpu_mask 0, head first
Unselectable(h, q) ==
    SelectSeq(Items(h, q), LAMBDA item : h[item].process.cpu_mask = 0)

\* C19: a process with cpu_mask 0 is accepted by push_to_queue like any
\* other: unless its identity is queued or the allocation fails the push
\* returns push_success and queues it where the order puts it.  get_top and
\* pop_top never return such a process and run_top never invokes or removes
\* one, whatever the mask asked for: through get_top, pop_top and run_top
\* calls its node stays queued with its contents, so the queue does not
\* become empty.
C19_MaskZero ==
    [][ /\ (last'.op = "push_to_queue" /\ last'.process.cpu_mask = 0) =>
                \A pre \in {Q(last'.q)} :
                    (IndexOf(pre, last'.process) = 0 /\ last'.ret # "push_error") =>
                        /\ last'.ret = "push_success"
                        /\ \A k \in {InsertAt(pre, last'.process)} :
                               /\ QNext(last'.q)[k] = last'.process
                               /\ RemoveAt(QNext(last'.q), k) = pre
        /\ last'.op \in {"get_top", "run_top"} =>
                (last'.out # NULL => heap[last'.out].process.cpu_mask # 0)
        /\ last'.op = "pop_top" =>
                (last'.ret = TRUE /\ last'.has_out => last'.process.cpu_mask # 0)
        /\ last'.op \in {"get_top", "pop_top", "run_top"} =>
                \A kept \in {Unselectable(heap, queue[last'.q])} :
                    /\ Unselectable(heap', queue'[last'.q]) = kept
                    /\ \A k \in 1..Len(kept) : heap'[kept[k]].process = heap[kept[k]].process
                    /\ kept # <<>> => queue'[last'.q].top # NULL /\ queue'[last'.q].size >= 1
      ]_vars

\* run_top invoked the process before one with cpu_mask 0, got 0 and removed
\* it: the process with cpu_mask 0 is the only one left
C19_Witness ==
    /\ last.op = "run_top" /\ last.out # NULL /\ last.call_res = U32(0)
    /\ Len(Q(last.q)) = 1
    /\ Q(last.q)[1].cpu_mask = 0

ExactScore(p) ==
    LET low == p.niceness * p.remaining_time[2]
    IN  <<p.niceness * p.remaining_time[1] + low \div Half, low % Half>>

ExactLt(x, y) == x[1] < y[1] \/ (x[1] = y[1] /\ x[2] < y[2])

\* C16: the score compared is the integer niceness * remaining_time for every
\* niceness in [10, 49] and every remaining_time of the unsigned int range:
\* whenever the product of a is smaller than the product of b,
\* process_evaluation(a, b) is true and process_evaluation(b, a) is false.
C16_ExactProduct ==
    (last.op = "process_evaluation" /\ last.done) =>
        (ExactLt(ExactScore(last.a), ExactScore(last.b)) =>
            (last.before[1][2] /\ ~last.before[2][1]))

\* C20: whenever the callback returns a value other than 0, what run_top
\* returns is not 0 either: run_top returns 0 only when no process was
\* eligible or the process invoked returned 0 and was removed.
C20_ZeroOnlyWhenDone ==
    (last.op = "run_top" /\ last.done /\ last.ret = U32(0)) =>
        \/ ~Intersects(last.a.cpu_mask, last.mask)
        \/ last.call_res = U32(0) /\ queue[1].top = NULL

\* the set of nodes of queue q
Nodes(h, q) == {Items(h, q)[k] : k \in 1..Len(Items(h, q))}

\* C12: a copy_queue that returns true leaves dest with the processes of the
\* source, in the same order and with the same size, in nodes that are not
\* nodes of the source.  From then on a push_to_queue, pop_top, renice,
\* run_top or clear_queue on one of the two queues never changes the size,
\* the order, the nodes or the contents of the other, whichever of the two is
\* called on.
C12_CopyIndependent ==
    [][ /\ Nodes(heap, queue[1]) \cap Nodes(heap, queue[2]) = {}
        /\ (last'.op = "copy_queue" /\ last'.ret = TRUE) =>
                \A source \in {last'.arg}, dest \in {last'.q} :
                    /\ QNext(dest) = Q(source)
                    /\ queue'[dest].size = queue[source].size
                    /\ Nodes(heap', queue'[dest]) \cap Nodes(heap', queue'[source]) = {}
        /\ last'.op \in {"copy_queue", "push_to_queue", "pop_top", "renice", "run_top",
                          "clear_queue"} =>
                \A other \in QueueIds \ {last'.q} :
                    /\ queue'[other] = queue[other]
                    /\ Items(heap', queue'[other]) = Items(heap, queue[other])
                    /\ \A item \in Nodes(heap, queue[other]) : heap'[item] = heap[item]
      ]_vars

\* the copy of a queue of two lost a process to a run_top whose callback
\* returned 0, and the source holds both
C12_Witness ==
    /\ last.op = "run_top" /\ last.q \in Copies
    /\ last.out # NULL /\ last.call_res = U32(0)
    /\ Len(Q(last.q)) = 1
    /\ \E source \in Working :
           /\ Len(Q(source)) = 2
           /\ \E k \in 1..2 : Q(source)[k] = Q(last.q)[1]

\* C18: run_top selects and then mutates, and nothing serializes two calls.
\* When two run_top calls on one queue interleave between get_top and
\* pop_top, both can invoke the callback of the same queued process.  A call
\* that runs with no step of another call between its get_top and its return
\* holds the first node of the queue that its mask selects, and the callback
\* it invokes is that of the process queued in that node.
C18_RunTopRace ==
    (last.op = "run_top" /\ ~last.crashed) =>
        \A t \in Cpus : \A c \in {last.cpu[t]} :
            (c.pc # "idle" /\ c.alone) =>
                \A i \in {FirstSelected(Q(1), c.cpu_mask)} :
                    /\ i > 0
                    /\ Items(heap, queue[1])[i] = c.proc
                    /\ c.pc = "invoked" =>
                           c.invoked = <<Q(1)[i].callback, Q(1)[i].context>>

\* two calls in flight have both invoked the callback of one process, which
\* is queued
C18_Witness ==
    /\ last.op = "run_top" /\ ~last.crashed
    /\ \A t \in Cpus : last.cpu[t].pc = "invoked"
    /\ last.cpu[1].proc = last.cpu[2].proc
    /\ last.cpu[1].proc \in Nodes(heap, queue[1])
    /\ \A t \in Cpus :
           \A p \in {heap[last.cpu[t].proc].process} :
               last.cpu[t].invoked = <<p.callback, p.context>>

====
